---- MODULE Spec2Model ----
(***************************************************************************)
(* ChargeAPI (main.py): a single POST /charge endpoint that validates a    *)
(* top-up request, classifies the operator from the phone prefix, builds   *)
(* the reseller query, issues one GET and unwraps the JSONP answer.        *)
(*                                                                         *)
(* Python str values are sequences of one-character strings; a fixed       *)
(* literal that is never inspected is kept as a one-element sequence.      *)
(***************************************************************************)
EXTENDS Integers, Sequences, FiniteSets, TLC

VARIABLES WEB_ID, pc, req, sent, reply, status, result, gets, fin, fout

vars == <<WEB_ID, pc, req, sent, reply, status, result, gets, fin, fout>>

handlerVars == <<pc, req, sent, reply, status, result, gets>>

\* ------------------------------------------------------------------ bounds
\* number of requests in flight at the service
NumRequests == 2
\* longest phone string given to the classifier
MaxPhoneLen == 12
\* longest JSON text the upstream wraps
MaxJsonLen == 3

\* ------------------------------------------------------------- Python values
None == <<"None">>

\* Python truthiness of a str | None value: `not x`
Falsy(x) == x = None \/ x = <<>>

\* str(int) / f"{n}" for an int
RECURSIVE NatToStr(_)
NatToStr(n) ==
  LET d == <<"0","1","2","3","4","5","6","7","8","9">>[(n % 10) + 1]
  IN IF n < 10 THEN <<d>> ELSE NatToStr(n \div 10) \o <<d>>

IntToStr(n) == IF n < 0 THEN <<"-">> \o NatToStr(0 - n) ELSE NatToStr(n)

\* ------------------------------------------------------------------- regex
AsciiDigits == {"0","1","2","3","4","5","6","7","8","9"}
\* "U+06F7" stands for EXTENDED ARABIC-INDIC DIGIT SEVEN: \d on a str pattern
\* matches every Unicode decimal digit
UnicodeDigits == AsciiDigits \cup {"U+06F7"}

\* n copies of the character class cls: cls{n}
Rep(cls, n) == [i \in 1..n |-> cls]

\* re.fullmatch of a pattern that is a fixed sequence of character classes
fullmatch(pattern, s) ==
  /\ Len(s) = Len(pattern)
  /\ \A i \in 1..Len(pattern) : s[i] \in pattern[i]

\* r"09\d{9}"
RE_PHONE == <<{"0"}, {"9"}>> \o Rep(UnicodeDigits, 9)
\* r"09[03]\d{8}"
RE_MTN == <<{"0"}, {"9"}, {"0","3"}>> \o Rep(UnicodeDigits, 8)
\* r"09[19]\d{8}"
RE_MCI == <<{"0"}, {"9"}, {"1","9"}>> \o Rep(UnicodeDigits, 8)
\* r"094\d{8}"
RE_WIMAX == <<{"0"}, {"9"}, {"4"}>> \o Rep(UnicodeDigits, 8)
\* r"092[0-2]\d{7}"
RE_RTL == <<{"0"}, {"9"}, {"2"}, {"0","1","2"}>> \o Rep(UnicodeDigits, 7)

\* ---------------------------------------------------------------- helpers
is_valid_phone(phone) == fullmatch(RE_PHONE, phone)

\* mutant: the daemi flag is tested before the super flag
get_operator_daemi_first(phone, super_charge, daemi) ==
  IF fullmatch(RE_MTN, phone) THEN
       IF daemi THEN <<"#","M","T","N">>
       ELSE IF super_charge THEN <<"!","M","T","N">>
       ELSE <<"M","T","N">>
  ELSE IF fullmatch(RE_MCI, phone) THEN <<"M","C","I">>
  ELSE IF fullmatch(RE_WIMAX, phone) THEN <<"W","i","M","a","x">>
  ELSE IF fullmatch(RE_RTL, phone) THEN
       IF super_charge THEN <<"!","R","T","L">> ELSE <<"R","T","L">>
  ELSE None

\* mutant: a phone that matches no rule is given to MCI
get_operator_default_mci(phone, super_charge, daemi) ==
  IF fullmatch(RE_MTN, phone) THEN
       IF super_charge THEN <<"!","M","T","N">>
       ELSE IF daemi THEN <<"#","M","T","N">>
       ELSE <<"M","T","N">>
  ELSE IF fullmatch(RE_WIMAX, phone) THEN <<"W","i","M","a","x">>
  ELSE IF fullmatch(RE_RTL, phone) THEN
       IF super_charge THEN <<"!","R","T","L">> ELSE <<"R","T","L">>
  ELSE <<"M","C","I">>

get_operator(phone, super_charge, daemi) ==
  IF fullmatch(RE_MTN, phone) THEN
       IF super_charge THEN <<"!","M","T","N">>
       ELSE IF daemi THEN <<"#","M","T","N">>
       ELSE <<"M","T","N">>
  ELSE IF fullmatch(RE_MCI, phone) THEN <<"M","C","I">>
  ELSE IF fullmatch(RE_WIMAX, phone) THEN <<"W","i","M","a","x">>
  ELSE IF fullmatch(RE_RTL, phone) THEN
       IF super_charge THEN <<"!","R","T","L">> ELSE <<"R","T","L">>
  ELSE None

\* ------------------------------------------------------------ configuration
REDIRECT_URL == <<"https://domain.com/charge.php">>

TOPUP_URL == <<"https://chr724.ir/services/v3/EasyCharge/TopUp">>
BUYPRODUCT_URL == <<"https://chr724.ir/services/v3/EasyCharge/BuyProduct">>

\* API_URLS.get(charge_type)
API_URLS_get(charge_type) ==
  IF charge_type = "direct" THEN TOPUP_URL
  ELSE IF charge_type = "pincode" THEN BUYPRODUCT_URL
  ELSE None

\* values os.getenv("CHARGE_RESELLER_WEB_ID") can give: unset, empty, set
WebIds == {None, <<>>, <<"w","1">>}

\* representatives of random.randint(1111111111, 9999999999) (callback name)
TokenSample == {1111111111}
\* representatives of random.randint(1111111111111, 9999999999999) (the "_" nonce)
NonceSample == {1111111}

\* ----------------------------------------------------------- build_params
\* dict.update: the keys of new override those of old
DictUpdate(old, new) == new @@ old

\* mutant: productId is built from the phone instead of the amount
build_params_phone_id(web_id, data, nonce) ==
  LET base == ("data[webserviceId]" :> web_id)
           @@ ("data[redirectUrl]" :> REDIRECT_URL)
           @@ ("data[count]" :> 1)
           @@ ("data[email]" :> <<>>)
           @@ ("data[packageId]" :> <<>>)
           @@ ("data[billId]" :> <<>>)
           @@ ("data[paymentId]" :> <<>>)
           @@ ("data[issuer]" :> <<>>)
           @@ ("data[paymentDetails]" :> <<"true">>)
           @@ ("data[redirectToPage]" :> <<"true">>)
           @@ ("data[scriptVersion]" :> <<"Script-fluent-1.7">>)
           @@ ("data[firstOutputType]" :> <<"json">>)
           @@ ("data[isTarabord]" :> <<"false">>)
           @@ ("data[secondOutputType]" :> <<"get">>)
           @@ ("data[ChargeKind]" :> <<>>)
           @@ ("_" :> nonce)
      params == DictUpdate(base,
                   ("data[amount]" :> data.amount)
                @@ ("data[cellphone]" :> data.phone)
                @@ ("data[type]" :> data.operator))
  IN IF data.type = "pincode"
     THEN DictUpdate(params,
            "data[productId]" :>
               (<<"C","C","-">> \o data.operator \o <<"-">> \o data.phone))
     ELSE params

\* build_params(data); web_id is the module global WEB_ID, nonce the value
\* random.randint returns for "_"
build_params(web_id, data, nonce) ==
  LET base == ("data[webserviceId]" :> web_id)
           @@ ("data[redirectUrl]" :> REDIRECT_URL)
           @@ ("data[count]" :> 1)
           @@ ("data[email]" :> <<>>)
           @@ ("data[packageId]" :> <<>>)
           @@ ("data[billId]" :> <<>>)
           @@ ("data[paymentId]" :> <<>>)
           @@ ("data[issuer]" :> <<>>)
           @@ ("data[paymentDetails]" :> <<"true">>)
           @@ ("data[redirectToPage]" :> <<"true">>)
           @@ ("data[scriptVersion]" :> <<"Script-fluent-1.7">>)
           @@ ("data[firstOutputType]" :> <<"json">>)
           @@ ("data[isTarabord]" :> <<"false">>)
           @@ ("data[secondOutputType]" :> <<"get">>)
           @@ ("data[ChargeKind]" :> <<>>)
           @@ ("_" :> nonce)
      params == DictUpdate(base,
                   ("data[amount]" :> data.amount)
                @@ ("data[cellphone]" :> data.phone)
                @@ ("data[type]" :> data.operator))
  IN IF data.type = "pincode"
     THEN DictUpdate(params,
            "data[productId]" :>
               (<<"C","C","-">> \o data.operator \o <<"-">> \o IntToStr(data.amount)))
     ELSE params

\* f"Shayan Golmezerji{n1}_{n2}"
callback_name(n1, n2) ==
  <<"Shayan Golmezerji">> \o IntToStr(n1) \o <<"_">> \o IntToStr(n2)

\* ------------------------------------------------------- JSONP unwrapping
\* str.find: the first index (from 1) at which sub occurs in s, 0 if none
StrFind(s, sub) ==
  LET hits == { i \in 1..(Len(s) - Len(sub) + 1) :
                  SubSeq(s, i, i + Len(sub) - 1) = sub }
  IN IF hits = {} THEN 0 ELSE CHOOSE i \in hits : \A j \in hits : i <= j

\* mutant: the callback name is not removed from the body
replace_first_noop(s, old) == s

\* s.replace(old, "", 1)
replace_first(s, old) ==
  LET i == StrFind(s, old)
  IN IF old = <<>> \/ i = 0 THEN s
     ELSE SubSeq(s, 1, i - 1) \o SubSeq(s, i + Len(old), Len(s))

\* re.search(r"^\((.*)\)$", text, re.DOTALL): group(1) of the match, or None.
\* .* is greedy, so the closing parenthesis is the last one that lets $ match;
\* $ matches at the end and just before a final newline.
re_search_paren(text) ==
  LET n == Len(text)
  IN IF n >= 2 /\ text[1] = "(" /\ text[n] = ")"
       THEN SubSeq(text, 2, n - 1)
     ELSE IF n >= 3 /\ text[1] = "(" /\ text[n] = "\n" /\ text[n - 1] = ")"
       THEN SubSeq(text, 2, n - 2)
     ELSE None

JSONDecodeError == <<"JSONDecodeError">>
JsonWs == {" ", "\n"}

RECURSIVE LStrip(_)
LStrip(s) == IF s # <<>> /\ s[1] \in JsonWs THEN LStrip(Tail(s)) ELSE s

RECURSIVE RStrip(_)
RStrip(s) ==
  IF s # <<>> /\ s[Len(s)] \in JsonWs THEN RStrip(SubSeq(s, 1, Len(s) - 1)) ELSE s

Strip(s) == RStrip(LStrip(s))

\* json.loads on the fragment of JSON made of the integers 1, 11, 111, ...
\* and arrays of at most one element; the value is given in the compact form
\* the framework serialises it to.
RECURSIVE json_loads(_)
json_loads(s) ==
  LET t == Strip(s)
      n == Len(t)
  IN IF n = 0 THEN JSONDecodeError
     ELSE IF \A i \in 1..n : t[i] = "1" THEN t
     ELSE IF n >= 2 /\ t[1] = "[" /\ t[n] = "]" THEN
       LET inner == SubSeq(t, 2, n - 1)
       IN IF Strip(inner) = <<>> THEN <<"[", "]">>
          ELSE LET v == json_loads(inner)
               IN IF v = JSONDecodeError THEN JSONDecodeError
                  ELSE <<"[">> \o v \o <<"]">>
     ELSE JSONDecodeError

\* response.raise_for_status(): HTTPError for 4xx and 5xx only
raises_for_status(status_code) == 400 <= status_code /\ status_code < 600

\* lines 153-175 on the outcome of requests.get: the HTTP answer of the endpoint
process_outcome(cb, rep) ==
  IF rep.kind # "response"
    THEN [status |-> 503, body |-> <<"detail: API connection error">>]
  ELSE IF raises_for_status(rep.status_code)
    THEN [status |-> 503, body |-> <<"detail: API connection error">>]
  ELSE
    LET response_text == replace_first(rep.text, cb)
        json_string == re_search_paren(response_text)
    IN IF json_string = None
         THEN [status |-> 502, body |-> <<"detail: invalid API response">>]
       ELSE LET res == json_loads(json_string)
            IN IF res = JSONDecodeError
                 THEN [status |-> 502, body |-> <<"detail: JSON processing error">>]
               ELSE [status |-> 200, body |-> res]

\* --------------------------------------------------------- process_charge
\* mutant: `WEB_ID is None`, which lets an empty identifier through
web_id_is_none(web_id) == web_id = None

\* `not WEB_ID`
web_id_missing(web_id) == Falsy(web_id)

\* mutant: the upper limit is not tested
amount_at_least(amount) == 2000 <= amount

\* `2000 <= request.amount <= 20000`
amount_in_range(amount) == 2000 <= amount /\ amount <= 20000

\* lines 107-138: the status of the HTTPException raised before the outbound
\* call, 0 when the request passes every check
precheck(web_id, request) ==
  IF web_id_missing(web_id) THEN 500
  ELSE IF ~amount_in_range(request.amount) THEN 400
  ELSE IF ~is_valid_phone(request.phone) THEN 400
  ELSE IF Falsy(get_operator(request.phone, request.super, request.daemi)) THEN 400
  ELSE IF Falsy(API_URLS_get(request.charge_type)) THEN 400
  ELSE 0

precheck_detail(web_id, request) ==
  IF web_id_missing(web_id) THEN <<"detail: web service id not configured">>
  ELSE IF ~amount_in_range(request.amount) THEN <<"detail: amount out of range">>
  ELSE IF ~is_valid_phone(request.phone) THEN <<"detail: phone must be 11 digits starting with 09">>
  ELSE IF Falsy(get_operator(request.phone, request.super, request.daemi))
    THEN <<"detail: operator not found">>
  ELSE <<"detail: invalid charge type">>

\* lines 140-149 and the arguments of requests.get
outbound(web_id, request, n1, n2, nonce) ==
  LET request_data == [amount |-> request.amount,
                       phone |-> request.phone,
                       operator |-> get_operator(request.phone, request.super, request.daemi),
                       type |-> request.charge_type]
      cb == callback_name(n1, n2)
  IN [url |-> API_URLS_get(request.charge_type),
      params |-> DictUpdate(build_params(web_id, request_data, nonce), "callback" :> cb),
      callback |-> cb]

\* ----------------------------------------------------------------- inputs
Requests == 1..NumRequests

ReqAmounts == {1999, 2000, 20000, 20001}
ReqPhones == { <<"0","9","3","0","0","0","0","0","0","0","0">>,
               <<"0","9","5","0","0","0","0","0","0","0","0">>,
               <<"0","9","3","0","0","0","0","0","0","0">> }
\* the request model's defaults: super: bool = False, daemi: bool = False
ReqFlags == {FALSE}
ChargeTypes == {"direct", "pincode"}

\* the bodies FastAPI hands to process_charge
ChargeRequests ==
  [amount : ReqAmounts, phone : ReqPhones, super : ReqFlags, daemi : ReqFlags,
   charge_type : ChargeTypes]

UpstreamStatuses == {200, 300, 500}
UpstreamJson == <<"[", "1", "]">>
\* bodies the reseller may answer a call made with callback cb
UpstreamTexts(cb) ==
  { cb \o <<"(">> \o UpstreamJson \o <<")">>,
    cb \o <<"(", "(">> \o UpstreamJson \o <<")", ")">>,
    UpstreamJson }
\* subclasses of requests.exceptions.RequestException raised by requests.get
RequestExceptions == {"ConnectionError", "Timeout"}

\* ------------------------------------------------------------------ state
\* process_charge is `async def` and calls the blocking requests.get with no
\* await: from its first line to its return it holds the event-loop thread.
LoopBusy == \E q \in Requests : pc[q] = "blocked"

\* req, sent and reply hold <<>> until the value exists and <<value>> after
Request(r) == req[r][1]
Sent(r) == sent[r][1]
Reply(r) == reply[r][1]

InitHandler ==
  /\ pc = [r \in Requests |-> "idle"]
  /\ req = [r \in Requests |-> <<>>]
  /\ sent = [r \in Requests |-> <<>>]
  /\ reply = [r \in Requests |-> <<>>]
  /\ status = [r \in Requests |-> 0]
  /\ result = [r \in Requests |-> None]
  /\ gets = [r \in Requests |-> 0]

Init ==
  /\ WEB_ID \in WebIds
  /\ InitHandler
  /\ fin = None
  /\ fout = <<>>

\* a POST /charge arrives; FastAPI validates the JSON body into a ChargeRequest
\* and schedules process_charge on the event loop
Arrive(r) ==
  /\ pc[r] = "idle"
  /\ \E body \in ChargeRequests : req' = [req EXCEPT ![r] = <<body>>]
  /\ pc' = [pc EXCEPT ![r] = "queued"]
  /\ UNCHANGED <<WEB_ID, sent, reply, status, result, gets, fin, fout>>

\* the event loop runs process_charge(request) up to its HTTPException or up
\* to the call of requests.get (lines 106-152)
Handle(r) ==
  /\ pc[r] = "queued"
  /\ ~LoopBusy
  /\ IF precheck(WEB_ID, Request(r)) # 0
       THEN /\ pc' = [pc EXCEPT ![r] = "done"]
            /\ status' = [status EXCEPT ![r] = precheck(WEB_ID, Request(r))]
            /\ result' = [result EXCEPT ![r] = precheck_detail(WEB_ID, Request(r))]
            /\ UNCHANGED <<sent, gets>>
       ELSE /\ \E n1 \in TokenSample, n2 \in TokenSample, nonce \in NonceSample :
                 sent' = [sent EXCEPT ![r] = <<outbound(WEB_ID, Request(r), n1, n2, nonce)>>]
            /\ gets' = [gets EXCEPT ![r] = @ + 1]
            /\ pc' = [pc EXCEPT ![r] = "blocked"]
            /\ UNCHANGED <<status, result>>
  /\ UNCHANGED <<WEB_ID, req, reply, fin, fout>>

Finish(r, rep) ==
  LET out == process_outcome(Sent(r).callback, rep)
  IN /\ reply' = [reply EXCEPT ![r] = <<rep>>]
     /\ status' = [status EXCEPT ![r] = out.status]
     /\ result' = [result EXCEPT ![r] = out.body]
     /\ pc' = [pc EXCEPT ![r] = "done"]
     /\ UNCHANGED <<WEB_ID, req, sent, gets, fin, fout>>

\* requests.get returns a Response; lines 153-164 and the handlers run
GetReturns(r) ==
  /\ pc[r] = "blocked"
  /\ \E code \in UpstreamStatuses, text \in UpstreamTexts(Sent(r).callback) :
       Finish(r, [kind |-> "response", status_code |-> code, text |-> text])

\* requests.get raises; the handler of line 166 runs
GetRaises(r) ==
  /\ pc[r] = "blocked"
  /\ \E e \in RequestExceptions :
       Finish(r, [kind |-> e, status_code |-> 0, text |-> <<>>])

Next ==
  \E r \in Requests : Arrive(r) \/ Handle(r) \/ GetReturns(r) \/ GetRaises(r)

Spec == Init /\ [][Next]_vars

\* The event loop runs a scheduled handler whenever the thread is free; the
\* code sets no timeout on requests.get, so nothing obliges the call to end.
FairSpec == Spec /\ \A r \in Requests : WF_vars(Handle(r))

\* ------------------------------------------------- get_operator on its own
PhoneChars == {"0", "1", "2", "3", "4", "5", "9", "a"}
LastChars == {"7", "a", "U+06F7"}

\* every 4-character head, followed by sevens and one last character
ClassifierPhones ==
  { h \o Rep("7", n - 1) \o <<c>> :
      h \in [1..4 -> PhoneChars], n \in 6..(MaxPhoneLen - 4), c \in LastChars }

InitOperator ==
  /\ WEB_ID = None
  /\ InitHandler
  /\ fin \in [phone : ClassifierPhones, super : BOOLEAN, daemi : BOOLEAN]
  /\ fout = <<>>

Classify ==
  /\ fout = <<>>
  /\ fout' = <<get_operator(fin.phone, fin.super, fin.daemi)>>
  /\ UNCHANGED <<WEB_ID, handlerVars, fin>>

SpecOperator == InitOperator /\ [][Classify]_vars

\* ------------------------------------------------- build_params on its own
OperatorCodes ==
  { <<"M","T","N">>, <<"#","M","T","N">>, <<"!","M","T","N">>, <<"M","C","I">>,
    <<"W","i","M","a","x">>, <<"R","T","L">>, <<"!","R","T","L">> }
BuildAmounts == {-5, 0, 7, 2000, 5000, 10605, 20000}
BuildPhones == { <<"0","9","3","0","0","0","0","0","0","0","0">>,
                 <<"0","9","2","1","5","5","5","0","1","2","3">> }

InitBuild ==
  /\ WEB_ID \in WebIds
  /\ InitHandler
  /\ fin \in [amount : BuildAmounts, phone : BuildPhones, operator : OperatorCodes,
              type : ChargeTypes]
  /\ fout = <<>>

Build ==
  /\ fout = <<>>
  /\ \E nonce \in NonceSample : fout' = <<build_params(WEB_ID, fin, nonce)>>
  /\ UNCHANGED <<WEB_ID, handlerVars, fin>>

SpecBuild == InitBuild /\ [][Build]_vars

\* ------------------------------------------- the JSONP unwrapping on its own
JsonChars == {"1", "[", "]", "\n"}
JsonTexts == UNION { [1..n -> JsonChars] : n \in 0..MaxJsonLen }

\* bodies around a text j for a call made with callback cb
WrappedTexts(cb) ==
  { pre \o open \o j \o close \o post :
      pre \in {<<>>, cb, cb \o cb, Tail(cb)},
      open \in {<<>>, <<"(">>, <<"(", "(">>},
      j \in JsonTexts,
      close \in {<<>>, <<")">>, <<")", ")">>},
      post \in {<<>>, <<"\n">>} }

UnwrapStatuses == {200, 201, 500}

InitUnwrap ==
  /\ WEB_ID = None
  /\ InitHandler
  /\ \E n1 \in TokenSample, n2 \in TokenSample :
       \E code \in UnwrapStatuses, text \in WrappedTexts(callback_name(n1, n2)) :
         fin = [callback |-> callback_name(n1, n2),
                rep |-> [kind |-> "response", status_code |-> code, text |-> text]]
  /\ fout = <<>>

Unwrap ==
  /\ fout = <<>>
  /\ fout' = <<process_outcome(fin.callback, fin.rep)>>
  /\ UNCHANGED <<WEB_ID, handlerVars, fin>>

SpecUnwrap == InitUnwrap /\ [][Unwrap]_vars

\* ================================================================ claims
MTN == <<"M","T","N">>
Configured == WEB_ID # None /\ WEB_ID # <<>>
AllDigitsFrom(p, k) == \A i \in k..Len(p) : p[i] \in UnicodeDigits
StartsWith(p, pre) == Len(p) >= Len(pre) /\ SubSeq(p, 1, Len(pre)) = pre

\* the four prefix patterns, character by character
MatchesMTN(p) ==
  Len(p) = 11 /\ StartsWith(p, <<"0","9">>) /\ p[3] \in {"0","3"} /\ AllDigitsFrom(p, 4)
MatchesMCI(p) ==
  Len(p) = 11 /\ StartsWith(p, <<"0","9">>) /\ p[3] \in {"1","9"} /\ AllDigitsFrom(p, 4)
MatchesWiMax(p) ==
  Len(p) = 11 /\ StartsWith(p, <<"0","9","4">>) /\ AllDigitsFrom(p, 4)
MatchesRTL(p) ==
  Len(p) = 11 /\ StartsWith(p, <<"0","9","2">>) /\ p[4] \in {"0","1","2"} /\ AllDigitsFrom(p, 5)
MatchesNone(p) == ~MatchesMTN(p) /\ ~MatchesMCI(p) /\ ~MatchesWiMax(p) /\ ~MatchesRTL(p)

RuleTable(p, s, d) ==
  CASE MatchesMTN(p) /\ s -> <<"!">> \o MTN
    [] MatchesMTN(p) /\ ~s /\ d -> <<"#">> \o MTN
    [] MatchesMTN(p) /\ ~s /\ ~d -> MTN
    [] MatchesMCI(p) -> <<"M","C","I">>
    [] MatchesWiMax(p) -> <<"W","i","M","a","x">>
    [] MatchesRTL(p) /\ s -> <<"!","R","T","L">>
    [] MatchesRTL(p) /\ ~s -> <<"R","T","L">>
    [] MatchesNone(p) -> None

\* C1: for every phone and every pair of flags get_operator returns the entry
\* of the first-match rule table: 09[03]+8 digits -> !MTN if super, else #MTN
\* if daemi, else MTN; 09[19]+8 digits -> MCI; 094+8 digits -> WiMax;
\* 092[0-2]+7 digits -> !RTL if super else RTL; anything else -> None.
C1_OperatorTable ==
  fout # <<>> => fout[1] = RuleTable(fin.phone, fin.super, fin.daemi)

C1_Witness ==
  /\ fout # <<>>
  /\ MatchesMTN(fin.phone) /\ fin.super /\ fin.daemi
  /\ fout[1] = <<"!">> \o MTN

OutOfRange(amount) == amount < 2000 \/ amount > 20000

\* C2 as stated: every request whose amount is below 2000 or above 20000 is
\* answered 400, with no outbound GET issued.
C2_Stated ==
  \A r \in Requests :
    (pc[r] = "done" /\ OutOfRange(Request(r).amount)) => (status[r] = 400 /\ gets[r] = 0)

\* C2 amended: a request whose amount is below 2000 or above 20000 never
\* issues an outbound GET, and is answered 400 when the webservice identifier
\* is configured and 500 when it is not.
C2_Amended ==
  \A r \in Requests :
    (pc[r] # "idle" /\ OutOfRange(Request(r).amount)) =>
       /\ gets[r] = 0
       /\ pc[r] # "blocked"
       /\ pc[r] = "done" => status[r] = IF Configured THEN 400 ELSE 500

C2_Witness ==
  \E r \in Requests :
    pc[r] = "done" /\ Request(r).amount = 20001 /\ Configured /\ status[r] = 400

\* C3: when the outbound GET times out the endpoint answers 504, after exactly
\* one outbound GET.
C3_Timeout504 ==
  \A r \in Requests :
    (pc[r] = "done" /\ gets[r] > 0 /\ Reply(r).kind = "Timeout") =>
       (status[r] = 504 /\ gets[r] = 1)

Is2xx(code) == 200 <= code /\ code < 300
IsJson(j) == json_loads(j) # JSONDecodeError
Wrapped(cb, j, k) == cb \o Rep("(", k) \o j \o Rep(")", k)

\* C4 as stated: a 2xx answer whose body is the callback name followed by a
\* JSON value J inside two pairs of parentheses is answered 200 with J.
C4_Stated ==
  (fout # <<>> /\ Is2xx(fin.rep.status_code)) =>
    \A j \in JsonTexts :
      (IsJson(j) /\ fin.rep.text = Wrapped(fin.callback, j, 2)) =>
         (fout[1].status = 200 /\ fout[1].body = json_loads(j))

\* C4 amended: a 2xx answer whose body is the callback name followed by a
\* JSON value J inside one pair of parentheses is answered 200 with J; inside
\* two pairs of parentheses it is answered 502.
C4_Amended ==
  (fout # <<>> /\ Is2xx(fin.rep.status_code)) =>
    \A j \in JsonTexts :
      /\ (IsJson(j) /\ fin.rep.text = Wrapped(fin.callback, j, 1)) =>
            (fout[1].status = 200 /\ fout[1].body = json_loads(j))
      /\ (IsJson(j) /\ fin.rep.text = Wrapped(fin.callback, j, 2)) =>
            fout[1].status = 502

C4_Witness ==
  /\ fout # <<>>
  /\ fin.rep.status_code = 201
  /\ fin.rep.text = Wrapped(fin.callback, <<"[", "1", "]">>, 1)
  /\ fout[1] = [status |-> 200, body |-> <<"[", "1", "]">>]

\* C5: while one request waits on its outbound call, another request in
\* flight can still be served.
C5_OthersProgress ==
  \A r \in Requests, q \in Requests :
    (pc[r] = "blocked" /\ pc[q] = "queued") => ENABLED Handle(q)

\* C6: every request that reaches the outbound call is eventually answered,
\* even if the upstream never answers.
C6_EventuallyAnswered ==
  \A r \in Requests : (pc[r] = "blocked") ~> (pc[r] = "done")

\* C7: when the upstream answers with a non-2xx status the endpoint answers
\* 503 or 502, never 200.
C7_Non2xxFails ==
  \A r \in Requests :
    (pc[r] = "done" /\ gets[r] > 0 /\ Reply(r).kind = "response"
       /\ ~Is2xx(Reply(r).status_code)) =>
      status[r] \in {502, 503}

\* C8 as stated: every request whose phone matches none of the four patterns
\* is answered 400, with no outbound GET issued.
C8_Stated ==
  \A r \in Requests :
    (pc[r] = "done" /\ MatchesNone(Request(r).phone)) => (status[r] = 400 /\ gets[r] = 0)

\* C8 amended: a request whose phone matches none of the four patterns never
\* issues an outbound GET, and is answered 400 when the webservice identifier
\* is configured and 500 when it is not.
C8_Amended ==
  \A r \in Requests :
    (pc[r] # "idle" /\ MatchesNone(Request(r).phone)) =>
       /\ gets[r] = 0
       /\ pc[r] # "blocked"
       /\ pc[r] = "done" => status[r] = IF Configured THEN 400 ELSE 500

C8_Witness ==
  \E r \in Requests :
    /\ pc[r] = "done" /\ Configured /\ ~OutOfRange(Request(r).amount)
    /\ StartsWith(Request(r).phone, <<"0","9","5">>) /\ Len(Request(r).phone) = 11
    /\ status[r] = 400

DigitOf ==
  ("0" :> 0) @@ ("1" :> 1) @@ ("2" :> 2) @@ ("3" :> 3) @@ ("4" :> 4) @@
  ("5" :> 5) @@ ("6" :> 6) @@ ("7" :> 7) @@ ("8" :> 8) @@ ("9" :> 9)

RECURSIVE DecimalValue(_)
DecimalValue(t) ==
  IF t = <<>> THEN 0
  ELSE 10 * DecimalValue(SubSeq(t, 1, Len(t) - 1)) + DigitOf[t[Len(t)]]

IsNatText(t, n) ==
  /\ t # <<>>
  /\ \A i \in 1..Len(t) : t[i] \in AsciiDigits
  /\ Len(t) > 1 => t[1] # "0"
  /\ DecimalValue(t) = n

IsIntText(t, n) ==
  IF n < 0 THEN Len(t) >= 2 /\ t[1] = "-" /\ IsNatText(Tail(t), 0 - n)
  ELSE IsNatText(t, n)

\* "CC-{operator}-{amount}"
IsProductId(t, operator, amount) ==
  LET k == 3 + Len(operator)
  IN /\ Len(t) > k + 1
     /\ SubSeq(t, 1, 3) = <<"C", "C", "-">>
     /\ SubSeq(t, 4, k) = operator
     /\ t[k + 1] = "-"
     /\ IsIntText(SubSeq(t, k + 2, Len(t)), amount)

\* C9: the payload of build_params has productId = "CC-{operator}-{amount}"
\* (CC-MTN-5000 for MTN and 5000) when the charge type is pincode and no
\* productId key when it is direct; amount, cellphone and type are the
\* request's amount, phone and operator code.
C9_Payload ==
  fout # <<>> =>
    LET params == fout[1]
    IN /\ params["data[amount]"] = fin.amount
       /\ params["data[cellphone]"] = fin.phone
       /\ params["data[type]"] = fin.operator
       /\ fin.type = "direct" => "data[productId]" \notin DOMAIN params
       /\ fin.type = "pincode" =>
            /\ "data[productId]" \in DOMAIN params
            /\ IsProductId(params["data[productId]"], fin.operator, fin.amount)
            /\ (fin.operator = MTN /\ fin.amount = 5000) =>
                 params["data[productId]"] =
                   <<"C","C","-","M","T","N","-","5","0","0","0">>

C9_Witness ==
  /\ fout # <<>>
  /\ fin.type = "pincode" /\ fin.operator = MTN /\ fin.amount = 5000
  /\ fout[1]["data[productId]"] = <<"C","C","-","M","T","N","-","5","0","0","0">>

IsPhone11(p) == Len(p) = 11 /\ StartsWith(p, <<"0","9">>) /\ AllDigitsFrom(p, 3)

\* C10: a request issues at most one outbound GET, and only after the
\* webservice identifier is configured, the amount is within [2000, 20000],
\* the phone is an 11-digit 09 number and an operator was found; a request
\* answered 400 or 500 has issued none, and a request that failed after its
\* GET has issued exactly one.
C10_OneGet ==
  \A r \in Requests :
    /\ gets[r] <= 1
    /\ gets[r] = 1 =>
         /\ Configured
         /\ ~OutOfRange(Request(r).amount)
         /\ IsPhone11(Request(r).phone)
         /\ ~MatchesNone(Request(r).phone)
    /\ (pc[r] = "done" /\ status[r] \in {400, 500}) => gets[r] = 0
    /\ (pc[r] = "done" /\ status[r] \in {502, 503}) => gets[r] = 1
    /\ pc[r] = "blocked" => gets[r] = 1

C10_Witness ==
  \E r \in Requests : pc[r] = "done" /\ status[r] = 502 /\ gets[r] = 1

====
